---- MODULE Spec2Model ----
(***************************************************************************)
(* HX711 driver (src/HX711.ts): the namespace's module state, the bit-     *)
(* banged conversion protocol and the calibration layer, as a state        *)
(* machine.  `stack` is the call stack of the fiber that is running, one   *)
(* frame per active function of the namespace.  A step is one statement of *)
(* the pulse loops, or one loop test with the call or return it leads to.  *)
(*                                                                         *)
(* The driver has no lock: basic.pause hands the processor to the          *)
(* scheduler, and another fiber may enter any exported function before the *)
(* paused call goes on.  `parked` is the fiber that is not running; a call *)
(* can be entered while the other fiber is suspended in a pause.           *)
(*                                                                         *)
(* Numbers that the source divides (OFFSET, SCALE, CAL_RATIO, averages)    *)
(* are exact fractions [n, d] in lowest terms, with the IEEE specials:     *)
(* [0,1] = +0, [0,-1] = -0, [1,0] = Infinity, [-1,0] = -Infinity,          *)
(* [0,0] = NaN.  Rounding of doubles is not modelled.  read() results are  *)
(* 32-bit signed integers.                                                 *)
(***************************************************************************)
EXTENDS Integers, Sequences, FiniteSets, TLC

VARIABLES
  PD_SCK,     \* clock pin binding                         (HX711.ts:9)
  DOUT,       \* data pin binding                          (HX711.ts:10)
  GAIN,       \* trailing pulse count                      (HX711.ts:11)
  OFFSET,     \* tare offset                               (HX711.ts:12)
  SCALE,      \* scale divisor                             (HX711.ts:13)
  CAL_RATIO,  \* calibration ratio                         (HX711.ts:14)
  level,      \* level last written to each pin (pins.digitalWritePin)
  now,        \* input.runningTime(), milliseconds
  stack,      \* call stack of the running fiber; <<>> when it is in no call
  ret,        \* value returned by the function that returned last
  shifted,    \* data-line samples taken by the current shift: [n, bits]
  op,         \* the public call in progress or last completed: [name, a, b]
  obs,        \* what the current public call has done so far (observation)
  sel,        \* last valid selector given to set_gain (0: none yet)
  hist,       \* the values last set, what the last tare and calibrate saw
  used,       \* budget spent: read() invocations asked for, or public calls
  parked,     \* the fiber that is not running: [stack, ret, shifted, op, obs]
  overlaps    \* calls entered so far while another call was suspended

vars == <<PD_SCK, DOUT, GAIN, OFFSET, SCALE, CAL_RATIO, level, now, stack,
          ret, shifted, op, obs, sel, hist, used, parked, overlaps>>

fibers == <<parked, overlaps>>

modstate == <<PD_SCK, DOUT, GAIN, OFFSET, SCALE, CAL_RATIO>>

-----------------------------------------------------------------------------
(* Integer helpers                                                         *)

Abs(x) == IF x < 0 THEN -x ELSE x

Sgn(x) == IF x < 0 THEN -1 ELSE IF x > 0 THEN 1 ELSE 0

Min2(a, b) == IF a < b THEN a ELSE b

Max2(a, b) == IF a < b THEN b ELSE a

(* In the operators below an operand that is used more than once is bound  *)
(* to its value first (u, v stand for the operands), so that it is         *)
(* evaluated once.                                                         *)
RECURSIVE Gcd(_, _)
Gcd(a, b) ==
  CHOOSE r \in {IF v = 0 THEN u ELSE Gcd(v, u % v) : u \in {a}, v \in {b}} :
    TRUE

RECURSIVE Pow2(_)
Pow2(k) == IF k = 0 THEN 1 ELSE 2 * Pow2(k - 1)

(* Bitwise | and & of JavaScript on 32-bit signed integers, two's          *)
(* complement: \div is floor division, so x \div 2 is the arithmetic shift.*)
RECURSIVE BitOr(_, _)
BitOr(x, y) ==
  CHOOSE r \in
    { IF u = 0 THEN v
      ELSE IF v = 0 THEN u
      ELSE IF u = -1 \/ v = -1 THEN -1
      ELSE 2 * BitOr(u \div 2, v \div 2) + Max2(u % 2, v % 2) :
      u \in {x}, v \in {y} } : TRUE

RECURSIVE BitAnd(_, _)
BitAnd(x, y) ==
  CHOOSE r \in
    { IF u = 0 \/ v = 0 THEN 0
      ELSE IF u = -1 THEN v
      ELSE IF v = -1 THEN u
      ELSE 2 * BitAnd(u \div 2, v \div 2) + Min2(u % 2, v % 2) :
      u \in {x}, v \in {y} } : TRUE

(* x << k of JavaScript for 0 <= x < 2^31 and 0 <= k <= 31: the low 32     *)
(* bits of x * 2^k read as a signed integer.                               *)
Shl(x, k) ==
  IF k = 0 THEN x
  ELSE CHOOSE r \in
         { IF (u \div m) % 2 = 1 THEN ((u % m) - m) * Pow2(k)
           ELSE (u % m) * Pow2(k) :
           u \in {x}, m \in {Pow2(31 - k)} } : TRUE

-----------------------------------------------------------------------------
(* Fractions with the IEEE specials                                        *)

NaN == [n |-> 0, d |-> 0]

(* The zero and the infinity of either sign.                               *)
Zero(negative) == [n |-> 0, d |-> IF negative THEN -1 ELSE 1]

Infinity(negative) == [n |-> IF negative THEN -1 ELSE 1, d |-> 0]

(* The integer i as a number; the integer 0 is +0.                         *)
Num(i) == [n |-> i, d |-> 1]

IsNaN(x) == x.n = 0 /\ x.d = 0

IsInfinite(x) == x.n # 0 /\ x.d = 0

IsFinite(x) == x.d # 0

IsZero(x) == x.n = 0 /\ x.d # 0

(* The sign bit of a number that is not NaN.                               *)
IsNegative(x) == IF x.n = 0 THEN x.d < 0 ELSE x.n < 0

(* The quotient n / d of two integers, d = 0 included: 0 / -2 is -0.       *)
Frac(n, d) ==
  IF d = 0 THEN [n |-> Sgn(n), d |-> 0]
  ELSE IF n = 0 THEN Zero(d < 0)
  ELSE LET g == Gcd(Abs(n), Abs(d))
       IN  [n |-> Sgn(d) * (n \div g), d |-> Abs(d) \div g]

(* x - y.  A difference that is zero is +0, except (-0) - (+0) = -0.       *)
NumSub(x, y) ==
  IF IsNaN(x) \/ IsNaN(y) THEN NaN
  ELSE IF IsInfinite(x) /\ IsInfinite(y)
       THEN (IF x.n = y.n THEN NaN ELSE x)
  ELSE IF IsInfinite(x) THEN x
  ELSE IF IsInfinite(y) THEN Infinity(~IsNegative(y))
  ELSE IF IsZero(x) /\ IsZero(y) THEN Zero(IsNegative(x) /\ ~IsNegative(y))
  ELSE IF x.n * Abs(y.d) = y.n * Abs(x.d) THEN Zero(FALSE)
  ELSE Frac(x.n * Abs(y.d) - y.n * Abs(x.d), Abs(x.d) * Abs(y.d))

(* x * y.  The sign of a zero or infinite product is the product of the    *)
(* signs; 0 * Infinity is NaN.                                             *)
NumMul(x, y) ==
  IF IsNaN(x) \/ IsNaN(y) THEN NaN
  ELSE IF (IsZero(x) /\ IsInfinite(y)) \/ (IsInfinite(x) /\ IsZero(y)) THEN NaN
  ELSE IF IsInfinite(x) \/ IsInfinite(y)
       THEN Infinity(IsNegative(x) # IsNegative(y))
  ELSE IF IsZero(x) \/ IsZero(y) THEN Zero(IsNegative(x) # IsNegative(y))
  ELSE LET g1 == Gcd(Abs(x.n), y.d)
           g2 == Gcd(Abs(y.n), x.d)
       IN  Frac((x.n \div g1) * (y.n \div g2), (x.d \div g2) * (y.d \div g1))

(* 1 / y: 1 / +0 = Infinity, 1 / -0 = -Infinity, 1 / -Infinity = -0.       *)
NumRecip(y) ==
  IF IsNaN(y) THEN NaN
  ELSE IF IsZero(y) THEN Infinity(IsNegative(y))
  ELSE IF IsInfinite(y) THEN Zero(IsNegative(y))
  ELSE IF y.n > 0 THEN [n |-> y.d, d |-> y.n]
  ELSE [n |-> -y.d, d |-> -y.n]

(* x / y.  The quotients formed here are exact, so x / y = x * (1 / y).    *)
NumDiv(x, y) == NumMul(x, NumRecip(y))

-----------------------------------------------------------------------------
(* Platform: pins, data line, scheduler                                    *)

Pins == {"P0", "P1", "P2", "P8"}

Levels == {0, 1}

(* The 24-bit patterns the converter may shift out, most significant bit   *)
(* first.  WideWords holds the extremes of the range; CalWords is the small*)
(* set used where ten-sample sums are formed.                              *)
WideWords == {0, 1, 8388607, 8388608, 16777215, 11184810}

CalWords == {4, 16777213}

WordBits == 24   \* three calls of shiftInSlow, eight samples each

(* The patterns of W that begin with the samples taken so far (n of them,  *)
(* read as the number bits).                                               *)
Extending(n, bits, W) == {w \in W : w \div Pow2(WordBits - n) = bits}

(* Bits n+1 .. n+k of pattern w, as a number.                              *)
Bits(w, n, k) == (w \div Pow2(WordBits - n - k)) % Pow2(k)

NoSamples == [n |-> 0, bits |-> 0]

-----------------------------------------------------------------------------
(* Observation of one public call                                          *)

NewObs ==
  [ reads   |-> 0,      \* read() invocations started
    done    |-> 0,      \* read() invocations returned
    sum     |-> 0,      \* sum of the values read() returned
    lo      |-> 0,      \* least value read() returned (when done > 0)
    hi      |-> 0,      \* greatest value read() returned (when done > 0)
    checks  |-> 0,      \* is_ready() evaluations of a public wait or is_ready
    ready   |-> 0,      \* those that saw the line low
    pauses  |-> 0,      \* basic.pause calls of a public wait
    dpulses |-> 0,      \* clock pulses of the data loop of the current read
    gpulses |-> 0,      \* clock pulses of the gain loop of the current read
    armed   |-> FALSE,  \* the current read saw the line low before shifting
    early   |-> FALSE,  \* a read pulsed the clock before it saw the line low
    busy    |-> 0,      \* times the wait of the current read saw the line high
    yields  |-> 0,      \* basic.pause(0) calls of read_average
    wrote   |-> {},     \* pins written
    sampled |-> {},     \* pins read
    writes  |-> 0,      \* pins.digitalWritePin calls
    low1st  |-> FALSE,  \* the first write of the call drove its pin low
    highs   |-> 0,      \* writes of 1 to the clock by the current read
    lows    |-> 0,      \* writes of 0 to the clock by the current read
    high    |-> FALSE,  \* the last clock write of the current read was 1
    taken   |-> 0,      \* data-line samples of the shift of the current read
    alt     |-> TRUE,   \* the clock writes of every read alternated 1, 0
    clocked |-> TRUE,   \* every such sample was the first since a write of 1
    fresh   |-> TRUE,   \* no sample of the current clock pulse yet
    yielded |-> FALSE,  \* a basic.pause ran inside a pulse sequence
    preempted |-> FALSE, \* an interrupt handler ran inside a pulse sequence
    stretched |-> FALSE, \* one ran there while the clock was high
    shared  |-> FALSE,  \* another fiber ran in the driver during the call
    t0      |-> now ]   \* input.runningTime() at entry

(* pins.digitalWritePin(pin, v) n times as seen by the observation.        *)
ObsWrite(o, pin, v, n) ==
  [o EXCEPT !.wrote = @ \cup {pin}, !.writes = @ + n,
            !.low1st = IF o.writes = 0 THEN v = 0 ELSE @]

(* The current read() is between the first clock raise and the last clock  *)
(* lower of its pulse sequence (HX711.ts:102-113).                         *)
InSequence(o) ==
  /\ o.reads > o.done
  /\ o.highs > 0
  /\ ~(o.highs = WordBits + GAIN /\ ~o.high)

(* One pin access or yield as seen by the observation: "raise" is          *)
(* pins.digitalWritePin(PD_SCK, 1), "lower" is pins.digitalWritePin(PD_SCK,*)
(* 0), "sample" is pins.digitalReadPin(DOUT), "pause" is basic.pause.      *)
ObsEvent(o, e) ==
  CASE e = "raise" ->
         [o EXCEPT !.highs = @ + 1, !.high = TRUE, !.fresh = TRUE,
                   !.alt = @ /\ ~o.high]
    [] e = "lower" ->
         [o EXCEPT !.lows = @ + 1, !.high = FALSE, !.alt = @ /\ o.high]
    [] e = "sample" ->
         [o EXCEPT !.taken = @ + 1, !.fresh = FALSE,
                   !.clocked = @ /\ o.high /\ o.fresh]
    [] e = "pause" ->
         [o EXCEPT !.yielded = @ \/ InSequence(o)]

Idle == stack = <<>>

Top == stack[Len(stack)]

Pop == SubSeq(stack, 1, Len(stack) - 1)

(* Replace the top frame by f and push g on it (call g from f).            *)
CallFrom(f, g) == Append(Append(Pop, f), g)

(* Replace the top frame.                                                  *)
Goto(f) == Append(Pop, f)

Running(fn) == ~Idle /\ Top.fn = fn

(* The running fiber is at a basic.pause (HX711.ts:133, 145, 159, 171):    *)
(* the scheduler may run another fiber before the call goes on.            *)
AtPause == ~Idle /\ Top.pc = "pause"

-----------------------------------------------------------------------------
(* Inputs of the public calls                                             *)

PinPairs == {<<"P8", "P0">>, <<"P1", "P2">>}   \* <<pinDOUT, pinPD_SCK>>

Selectors == {128, 64, 32, 16}                 \* 16: not a selector

Delays == {0, 1, 2}

MaxRetries == 2

MaxTimeout == 3

MaxTime == 5

MaxPolls == 3       \* not-ready observations of one public wait

MaxBusy == 1        \* not-ready observations of the reads of one public call

(* Values a call is given or returns, each with its type.                  *)
Undefined == <<"undefined", 0>>  \* the value of a call that returns nothing

Bool(b) == <<"boolean", b>>

Integer(i) == <<"int", i>>

Number(x) == <<"number", x>>       \* a fraction [n, d]

Pin(p) == <<"pin", p>>

Val(v) == v[2]

-----------------------------------------------------------------------------
(* Frames                                                                  *)

ReadFrame == [fn |-> "read", pc |-> "wait", data |-> <<0, 0, 0>>, i |-> 0]

WaitReadyFrame(delay_ms) ==
  [fn |-> "wait_ready", pc |-> "check", delay_ms |-> delay_ms]

SetGainFrame(gain) == [fn |-> "set_gain", pc |-> "switch", gain |-> gain]

(* The observation when a read() starts.                                   *)
ObsRead(o) ==
  [o EXCEPT !.reads = @ + 1, !.dpulses = 0, !.gpulses = 0, !.armed = FALSE,
            !.highs = 0, !.lows = 0, !.high = FALSE, !.taken = 0,
            !.fresh = TRUE]

-----------------------------------------------------------------------------
(* Fibers                                                                  *)

MaxOverlap == 1     \* calls entered while another call was suspended

NoOp == [name |-> "none", a |-> Undefined, b |-> Undefined]

(* A fiber that is in no call of the driver.                               *)
NoFiber ==
  [stack |-> <<>>, ret |-> Undefined, shifted |-> NoSamples, op |-> NoOp,
   obs |-> [NewObs EXCEPT !.t0 = 0]]

(* The running fiber, as the scheduler keeps it while another one runs.    *)
Fiber ==
  [stack |-> stack, ret |-> ret, shifted |-> shifted, op |-> op, obs |-> obs]

(* The other fiber is suspended inside a call.                             *)
Suspended == parked.stack # <<>>

(* A fiber during whose call another fiber runs in the driver.             *)
Disturbed(f) == [f EXCEPT !.obs.shared = TRUE]

(* A public call starts with stack st, observation o and return value r.   *)
(* The exported functions take no lock (HX711.ts has none): the call is    *)
(* entered while no call is in progress, or by another fiber while the     *)
(* running call is in basic.pause; that call then stays suspended until    *)
(* the scheduler resumes it.  Two fibers are followed, and at most         *)
(* MaxOverlap calls that are entered during a pause of another call.       *)
StartWith(name, a, b, st, o, r) ==
  /\ \/ /\ Idle /\ ~Suspended
        /\ UNCHANGED <<parked, overlaps>>
     \/ /\ AtPause /\ ~Suspended
        /\ overlaps < MaxOverlap
        /\ parked' = Disturbed(Fiber)
        /\ overlaps' = overlaps + 1
  /\ op' = [name |-> name, a |-> a, b |-> b]
  /\ obs' = o
  /\ stack' = st
  /\ ret' = r
  /\ shifted' = NoSamples

(* The scheduler resumes the suspended fiber when the running one has      *)
(* returned from its call or is itself in basic.pause.                     *)
fiberSwitch ==
  /\ Suspended
  /\ Idle \/ AtPause
  /\ stack' = parked.stack
  /\ ret' = parked.ret
  /\ shifted' = parked.shifted
  /\ op' = parked.op
  /\ obs' = parked.obs
  /\ parked' = IF Idle THEN NoFiber ELSE Disturbed(Fiber)
  /\ UNCHANGED <<modstate, level, now, sel, hist, used, overlaps>>

Start(name, a, b, st) == StartWith(name, a, b, st, NewObs, Undefined)

-----------------------------------------------------------------------------
(* begin, set_gain                                                         *)

(* begin with the two pin arguments bound the wrong way round.             *)
beginSwapped(pinDOUT, pinPD_SCK) ==
  /\ Start("begin", Pin(pinDOUT), Pin(pinPD_SCK),
           <<[fn |-> "begin", pc |-> "ret"], SetGainFrame(128)>>)
  /\ PD_SCK' = pinDOUT
  /\ DOUT' = pinPD_SCK
  /\ UNCHANGED <<GAIN, OFFSET, SCALE, CAL_RATIO, level, now, sel, hist>>

(* HX711.ts:28-33: bind the pins, then set_gain(128).                       *)
begin(pinDOUT, pinPD_SCK) ==
  /\ Start("begin", Pin(pinDOUT), Pin(pinPD_SCK),
           <<[fn |-> "begin", pc |-> "ret"], SetGainFrame(128)>>)
  /\ PD_SCK' = pinPD_SCK
  /\ DOUT' = pinDOUT
  /\ UNCHANGED <<GAIN, OFFSET, SCALE, CAL_RATIO, level, now, sel, hist>>

beginReturn ==
  /\ Running("begin") /\ Top.pc = "ret"
  /\ stack' = Pop
  /\ ret' = Undefined
  /\ UNCHANGED <<modstate, level, now, shifted, op, obs, sel, hist, used>>

(* The switch with the pulse counts of the 64 and 32 cases exchanged.      *)
GainPulsesAscending(gain, old) ==
  CASE gain = 128 -> 1
    [] gain = 64  -> 2
    [] gain = 32  -> 3
    [] OTHER      -> old

(* The switch with a default case that selects one pulse.                  *)
GainPulsesDefault(gain, old) ==
  CASE gain = 128 -> 1
    [] gain = 64  -> 3
    [] gain = 32  -> 2
    [] OTHER      -> 1

(* HX711.ts:40-50: the switch; a value it has no case for changes nothing. *)
GainPulses(gain, old) ==
  CASE gain = 128 -> 1
    [] gain = 64  -> 3
    [] gain = 32  -> 2
    [] OTHER      -> old

set_gain(gain) ==
  /\ Start("set_gain", Integer(gain), Undefined, <<SetGainFrame(gain)>>)
  /\ UNCHANGED <<modstate, level, now, sel, hist>>

(* HX711.ts:40-52: switch, clock low, call read().                         *)
set_gainSwitch ==
  /\ Running("set_gain") /\ Top.pc = "switch"
  /\ GAIN' = GainPulses(Top.gain, GAIN)
  /\ sel' = IF Top.gain \in {128, 64, 32} THEN Top.gain ELSE sel
  /\ level' = [level EXCEPT ![PD_SCK] = 0]
  /\ obs' = ObsRead(ObsWrite(obs, PD_SCK, 0, 1))
  /\ stack' = CallFrom([Top EXCEPT !.pc = "ret"], ReadFrame)
  /\ UNCHANGED <<PD_SCK, DOUT, OFFSET, SCALE, CAL_RATIO, now, ret, shifted,
                 op, hist, used>>

set_gainReturn ==
  /\ Running("set_gain") /\ Top.pc = "ret"
  /\ stack' = Pop
  /\ ret' = Undefined
  /\ UNCHANGED <<modstate, level, now, shifted, op, obs, sel, hist, used>>

-----------------------------------------------------------------------------
(* is_ready and the three waits                                            *)

(* The wait is the public call itself, not the wait of a read().           *)
PublicWait == Len(stack) = 1

(* The observation after one is_ready() that sampled lvl (HX711.ts:35-37), *)
(* in a public wait (public) or in the wait of a read().                   *)
ObsCheck(o, lvl, public) ==
  IF public
  THEN [o EXCEPT !.checks = @ + 1, !.sampled = @ \cup {DOUT},
                 !.ready = IF lvl = 0 THEN @ + 1 ELSE @]
  ELSE [o EXCEPT !.sampled = @ \cup {DOUT},
                 !.armed = IF lvl = 0 THEN TRUE ELSE @,
                 !.busy = IF lvl = 0 THEN 0 ELSE @ + 1]

ObsPause(o, public) ==
  [ObsEvent(o, "pause") EXCEPT !.pauses = IF public THEN @ + 1 ELSE @]

(* The data line may be sampled at lvl by the next readiness check: any    *)
(* level, but high only a bounded number of times in a row.                *)
MaySample(lvl) ==
  \/ lvl = 0
  \/ IF PublicWait THEN obs.checks - obs.ready < MaxPolls
      ELSE obs.busy < MaxBusy

is_ready ==
  \E lvl \in Levels :
    /\ StartWith("is_ready", Undefined, Undefined, <<>>,
                 ObsCheck(NewObs, lvl, TRUE), Bool(lvl = 0))
    /\ UNCHANGED <<modstate, level, now, sel, hist>>

wait_ready(delay_ms) ==
  /\ Start("wait_ready", Integer(delay_ms), Undefined,
           <<WaitReadyFrame(delay_ms)>>)
  /\ UNCHANGED <<modstate, level, now, sel, hist>>

(* The loop test inverted: the function returns when the line is high.    *)
wait_readyCheckInverted ==
  /\ Running("wait_ready") /\ Top.pc = "check"
  /\ \E lvl \in Levels :
       /\ MaySample(lvl)
       /\ obs' = ObsCheck(obs, lvl, PublicWait)
       /\ stack' = IF lvl = 1 THEN Pop ELSE Goto([Top EXCEPT !.pc = "pause"])
  /\ ret' = Undefined
  /\ UNCHANGED <<modstate, level, now, shifted, op, sel, hist, used>>

(* HX711.ts:132: the loop test; the function returns when the line is low. *)
wait_readyCheck ==
  /\ Running("wait_ready") /\ Top.pc = "check"
  /\ \E lvl \in Levels :
       /\ MaySample(lvl)
       /\ obs' = ObsCheck(obs, lvl, PublicWait)
       /\ stack' = IF lvl = 0 THEN Pop ELSE Goto([Top EXCEPT !.pc = "pause"])
  /\ ret' = Undefined
  /\ UNCHANGED <<modstate, level, now, shifted, op, sel, hist, used>>

(* HX711.ts:133: basic.pause(delay_ms).                                    *)
wait_readyPause ==
  /\ Running("wait_ready") /\ Top.pc = "pause"
  /\ now + Top.delay_ms <= MaxTime
  /\ now' = now + Top.delay_ms
  /\ obs' = ObsPause(obs, PublicWait)
  /\ stack' = Goto([Top EXCEPT !.pc = "check"])
  /\ UNCHANGED <<modstate, level, ret, shifted, op, sel, hist, used>>

wait_ready_retry(retries, delay_ms) ==
  /\ now + retries * delay_ms <= MaxTime
  /\ Start("wait_ready_retry", Integer(retries), Integer(delay_ms),
           <<[fn |-> "wait_ready_retry", pc |-> "loop", retries |-> retries,
              delay_ms |-> delay_ms, count |-> 0]>>)
  /\ UNCHANGED <<modstate, level, now, sel, hist>>

(* The loop test off by one: one attempt too many.                         *)
RetryAgainInclusive(count, retries) == count <= retries

(* HX711.ts:141: the loop test.                                            *)
RetryAgain(count, retries) == count < retries

(* HX711.ts:141-148: loop test, readiness check, return.                   *)
wait_ready_retryLoop ==
  /\ Running("wait_ready_retry") /\ Top.pc = "loop"
  /\ \/ /\ RetryAgain(Top.count, Top.retries)
        /\ \E lvl \in Levels :
             /\ MaySample(lvl)
             /\ obs' = ObsCheck(obs, lvl, PublicWait)
             /\ \/ lvl = 0 /\ stack' = Pop /\ ret' = Bool(TRUE)
                \/ /\ lvl # 0
                   /\ stack' = Goto([Top EXCEPT !.pc = "pause"])
                   /\ ret' = ret
     \/ /\ ~RetryAgain(Top.count, Top.retries)
        /\ stack' = Pop /\ ret' = Bool(FALSE) /\ obs' = obs
  /\ UNCHANGED <<modstate, level, now, shifted, op, sel, hist, used>>

(* HX711.ts:145-146: basic.pause(delay_ms); count++.                       *)
wait_ready_retryPause ==
  /\ Running("wait_ready_retry") /\ Top.pc = "pause"
  /\ now' = now + Top.delay_ms
  /\ obs' = ObsPause(obs, PublicWait)
  /\ stack' = Goto([Top EXCEPT !.pc = "loop", !.count = @ + 1])
  /\ UNCHANGED <<modstate, level, ret, shifted, op, sel, hist, used>>

wait_ready_timeout(timeout, delay_ms) ==
  /\ now + Max2(timeout, 0) + delay_ms <= MaxTime
  /\ Start("wait_ready_timeout", Integer(timeout), Integer(delay_ms),
           <<[fn |-> "wait_ready_timeout", pc |-> "loop", timeout |-> timeout,
              delay_ms |-> delay_ms, millisStarted |-> now]>>)
  /\ UNCHANGED <<modstate, level, now, sel, hist>>

(* The loop test off by one: still polling when the budget is just spent.  *)
TimeLeftInclusive(runningTime, millisStarted, timeout) ==
  runningTime - millisStarted <= timeout

(* HX711.ts:155: the loop test.                                            *)
TimeLeft(runningTime, millisStarted, timeout) ==
  runningTime - millisStarted < timeout

(* The loop with the readiness check made before the test of the clock.    *)
wait_ready_timeoutLoopCheckFirst ==
  /\ Running("wait_ready_timeout") /\ Top.pc = "loop"
  /\ \E lvl \in Levels :
       /\ MaySample(lvl)
       /\ obs' = ObsCheck(obs, lvl, PublicWait)
       /\ \/ lvl = 0 /\ stack' = Pop /\ ret' = Bool(TRUE)
          \/ /\ lvl # 0 /\ TimeLeft(now, Top.millisStarted, Top.timeout)
             /\ stack' = Goto([Top EXCEPT !.pc = "pause"]) /\ ret' = ret
          \/ /\ lvl # 0 /\ ~TimeLeft(now, Top.millisStarted, Top.timeout)
             /\ stack' = Pop /\ ret' = Bool(FALSE)
  /\ UNCHANGED <<modstate, level, now, shifted, op, sel, hist, used>>

(* HX711.ts:155-161: loop test against the clock, readiness check, return. *)
wait_ready_timeoutLoop ==
  /\ Running("wait_ready_timeout") /\ Top.pc = "loop"
  /\ \/ /\ TimeLeft(now, Top.millisStarted, Top.timeout)
        /\ \E lvl \in Levels :
             /\ MaySample(lvl)
             /\ obs' = ObsCheck(obs, lvl, PublicWait)
             /\ \/ lvl = 0 /\ stack' = Pop /\ ret' = Bool(TRUE)
                \/ /\ lvl # 0
                   /\ stack' = Goto([Top EXCEPT !.pc = "pause"])
                   /\ ret' = ret
     \/ /\ ~TimeLeft(now, Top.millisStarted, Top.timeout)
        /\ stack' = Pop /\ ret' = Bool(FALSE) /\ obs' = obs
  /\ UNCHANGED <<modstate, level, now, shifted, op, sel, hist, used>>

(* HX711.ts:159: basic.pause(delay_ms).                                    *)
wait_ready_timeoutPause ==
  /\ Running("wait_ready_timeout") /\ Top.pc = "pause"
  /\ now' = now + Top.delay_ms
  /\ obs' = ObsPause(obs, PublicWait)
  /\ stack' = Goto([Top EXCEPT !.pc = "loop"])
  /\ UNCHANGED <<modstate, level, ret, shifted, op, sel, hist, used>>

-----------------------------------------------------------------------------
(* shiftInSlow, read                                                       *)

ByteBits == 8

(* The sampled level always going to bit i: least significant bit first.   *)
ShiftBitLsbFirst(bitOrder, value, bit, i) == BitOr(value, Shl(bit, i))

(* HX711.ts:62-63: the sampled level goes to bit i (bitOrder 0) or bit     *)
(* 7 - i (any other bitOrder) of value.                                    *)
ShiftBit(bitOrder, value, bit, i) ==
  IF bitOrder = 0 THEN BitOr(value, Shl(bit, i))
  ELSE BitOr(value, Shl(bit, 7 - i))

BitOrders == {0, 1}     \* 0: least significant bit first (HX711.ts:97-98)

(* HX711.ts:56-57: value = 0; the loop starts with i = 0.                   *)
ShiftFrame(bitOrder) ==
  [fn |-> "shiftInSlow", pc |-> "raise", bitOrder |-> bitOrder, value |-> 0,
   i |-> 0]

(* HX711.ts:55: shiftInSlow is exported, a public call like the others.    *)
shiftInSlow(bitOrder) ==
  /\ Start("shiftInSlow", Integer(bitOrder), Undefined,
           <<ShiftFrame(bitOrder)>>)
  /\ UNCHANGED <<modstate, level, now, sel, hist>>

(* The raise followed by a basic.pause in place of the busy wait.          *)
shiftInSlowRaisePaused ==
  /\ Running("shiftInSlow") /\ Top.pc = "raise"
  /\ Top.i < ByteBits
  /\ level' = [level EXCEPT ![PD_SCK] = 1]
  /\ obs' = [ObsEvent(ObsEvent(ObsWrite(obs, PD_SCK, 1, 1), "raise"),
                      "pause") EXCEPT
               !.dpulses = @ + 1,
               !.early = @ \/ (obs.reads > obs.done /\ ~obs.armed)]
  /\ stack' = Goto([Top EXCEPT !.pc = "sample"])
  /\ UNCHANGED <<modstate, now, ret, shifted, op, sel, hist, used>>

(* HX711.ts:59-61: the loop test, pins.digitalWritePin(PD_SCK, 1), then a  *)
(* busy wait (control.waitMicros), which is no yield.                      *)
shiftInSlowRaise ==
  /\ Running("shiftInSlow") /\ Top.pc = "raise"
  /\ Top.i < ByteBits
  /\ level' = [level EXCEPT ![PD_SCK] = 1]
  /\ obs' = [ObsEvent(ObsWrite(obs, PD_SCK, 1, 1), "raise") EXCEPT
               !.dpulses = @ + 1,
               !.early = @ \/ (obs.reads > obs.done /\ ~obs.armed)]
  /\ stack' = Goto([Top EXCEPT !.pc = "sample"])
  /\ UNCHANGED <<modstate, now, ret, shifted, op, sel, hist, used>>

(* HX711.ts:62-63: value |= pins.digitalReadPin(DOUT) << i or << (7 - i).  *)
(* W is the set of patterns the converter may present: the level sampled   *)
(* is the next bit of one of them.                                         *)
shiftInSlowSample(W) ==
  /\ Running("shiftInSlow") /\ Top.pc = "sample"
  /\ \E bit \in {Bits(w, shifted.n, 1) :
                    w \in Extending(shifted.n, shifted.bits, W)} :
       /\ shifted' = [n |-> shifted.n + 1, bits |-> 2 * shifted.bits + bit]
       /\ stack' = Goto([Top EXCEPT
                           !.pc = "lower",
                           !.value = ShiftBit(Top.bitOrder, @, bit, Top.i)])
  /\ obs' = [ObsEvent(obs, "sample") EXCEPT !.sampled = @ \cup {DOUT}]
  /\ UNCHANGED <<modstate, level, now, ret, op, sel, hist, used>>

(* HX711.ts:64-65, 59: pins.digitalWritePin(PD_SCK, 0), busy wait, ++i.    *)
shiftInSlowLower ==
  /\ Running("shiftInSlow") /\ Top.pc = "lower"
  /\ level' = [level EXCEPT ![PD_SCK] = 0]
  /\ obs' = ObsEvent(ObsWrite(obs, PD_SCK, 0, 1), "lower")
  /\ stack' = Goto([Top EXCEPT !.pc = "raise", !.i = @ + 1])
  /\ UNCHANGED <<modstate, now, ret, shifted, op, sel, hist, used>>

(* HX711.ts:59, 67: the loop ends; return value.                           *)
shiftInSlowReturn ==
  /\ Running("shiftInSlow") /\ Top.pc = "raise"
  /\ ~(Top.i < ByteBits)
  /\ ret' = Integer(Top.value)
  /\ stack' = Pop
  /\ UNCHANGED <<modstate, level, now, shifted, op, obs, sel, hist, used>>

read ==
  /\ StartWith("read", Undefined, Undefined, <<ReadFrame>>, ObsRead(NewObs),
               Undefined)
  /\ UNCHANGED <<modstate, level, now, sel, hist>>

(* read() going straight to the shift, without the wait.                   *)
readNoWait ==
  /\ Running("read") /\ Top.pc = "wait"
  /\ stack' = Goto([Top EXCEPT !.pc = "data2"])
  /\ shifted' = NoSamples
  /\ UNCHANGED <<modstate, level, now, ret, op, obs, sel, hist, used>>

(* HX711.ts:74: wait_ready(0).                                             *)
readWait ==
  /\ Running("read") /\ Top.pc = "wait"
  /\ stack' = CallFrom([Top EXCEPT !.pc = "data2"], WaitReadyFrame(0))
  /\ shifted' = NoSamples
  /\ UNCHANGED <<modstate, level, now, ret, op, obs, sel, hist, used>>

(* data[k] is the k+1-st element of the tuple data.                        *)
DataIndex(pc) ==
  CASE pc = "store2" -> 3
    [] pc = "store1" -> 2
    [] pc = "store0" -> 1

StorePc(pc) ==
  CASE pc = "data2" -> "store2"
    [] pc = "data1" -> "store1"
    [] pc = "data0" -> "store0"

NextPc(pc) ==
  CASE pc = "store2" -> "data1"
    [] pc = "store1" -> "data0"
    [] pc = "store0" -> "gain"

(* HX711.ts:102-104: the call shiftInSlow(1) of each of the three lines.   *)
readShift ==
  /\ Running("read") /\ Top.pc \in {"data2", "data1", "data0"}
  /\ stack' = CallFrom([Top EXCEPT !.pc = StorePc(Top.pc)], ShiftFrame(1))
  /\ UNCHANGED <<modstate, level, now, ret, shifted, op, obs, sel, hist, used>>

(* HX711.ts:102-104: data[2], data[1], data[0] = the value returned;       *)
(* l.107-108: i = 0 before the gain loop.                                   *)
readStore ==
  /\ Running("read") /\ Top.pc \in {"store2", "store1", "store0"}
  /\ stack' = Goto([Top EXCEPT !.pc = NextPc(Top.pc),
                               !.data[DataIndex(Top.pc)] = Val(ret),
                               !.i = 0])
  /\ UNCHANGED <<modstate, level, now, ret, shifted, op, obs, sel, hist, used>>

(* HX711.ts:108-110: the loop test, pins.digitalWritePin(PD_SCK, 1), busy  *)
(* wait.                                                                   *)
readGainRaise ==
  /\ Running("read") /\ Top.pc = "gain"
  /\ Top.i < GAIN
  /\ level' = [level EXCEPT ![PD_SCK] = 1]
  /\ obs' = [ObsEvent(ObsWrite(obs, PD_SCK, 1, 1), "raise") EXCEPT
               !.gpulses = @ + 1, !.early = @ \/ ~obs.armed]
  /\ stack' = Goto([Top EXCEPT !.pc = "gainlow"])
  /\ UNCHANGED <<modstate, now, ret, shifted, op, sel, hist, used>>

(* The gain loop body without its second write.                            *)
readGainLowerSkipped ==
  /\ Running("read") /\ Top.pc = "gainlow"
  /\ stack' = Goto([Top EXCEPT !.pc = "gain", !.i = @ + 1])
  /\ UNCHANGED <<modstate, level, now, ret, shifted, op, obs, sel, hist, used>>

(* HX711.ts:111-112, 108: pins.digitalWritePin(PD_SCK, 0), busy wait, i++. *)
readGainLower ==
  /\ Running("read") /\ Top.pc = "gainlow"
  /\ level' = [level EXCEPT ![PD_SCK] = 0]
  /\ obs' = ObsEvent(ObsWrite(obs, PD_SCK, 0, 1), "lower")
  /\ stack' = Goto([Top EXCEPT !.pc = "gain", !.i = @ + 1])
  /\ UNCHANGED <<modstate, now, ret, shifted, op, sel, hist, used>>

(* The word built with no filler: the top byte left zero.                  *)
SignExtendNoFiller(data) ==
  BitOr(BitOr(Shl(data[3], 16), Shl(data[2], 8)), data[1])

(* HX711.ts:116-123: filler from the top bit of data[2], then the word.    *)
SignExtend(data) ==
  LET filler == IF BitAnd(data[3], 128) # 0 THEN 255 ELSE 0
  IN  BitOr(BitOr(BitOr(Shl(filler, 24), Shl(data[3], 16)),
                  Shl(data[2], 8)),
            data[1])

(* The observation after a read() returned value.                          *)
ObsDone(o, value) ==
  [o EXCEPT !.done = @ + 1, !.sum = @ + value,
            !.lo = IF o.done = 0 THEN value ELSE Min2(@, value),
            !.hi = IF o.done = 0 THEN value ELSE Max2(@, value)]

(* HX711.ts:108,116-125: the gain loop ends; sign-extend and return.       *)
readReturn ==
  /\ Running("read") /\ Top.pc = "gain"
  /\ ~(Top.i < GAIN)
  /\ ret' = Integer(SignExtend(Top.data))
  /\ obs' = ObsDone(obs, SignExtend(Top.data))
  /\ stack' = Pop
  /\ UNCHANGED <<modstate, level, now, shifted, op, sel, hist, used>>

-----------------------------------------------------------------------------
(* power_up, power_down                                                    *)

(* HX711.ts:240-242 *)
power_up ==
  /\ StartWith("power_up", Undefined, Undefined, <<>>,
               ObsWrite(NewObs, PD_SCK, 0, 1), Undefined)
  /\ level' = [level EXCEPT ![PD_SCK] = 0]
  /\ UNCHANGED <<modstate, now, sel, hist>>

(* power_down with its two writes in the other order.                      *)
power_downReversed ==
  /\ StartWith("power_down", Undefined, Undefined, <<>>,
               ObsWrite(ObsWrite(NewObs, PD_SCK, 1, 1), PD_SCK, 0, 1),
               Undefined)
  /\ level' = [level EXCEPT ![PD_SCK] = 0]
  /\ UNCHANGED <<modstate, now, sel, hist>>

(* HX711.ts:246-249 *)
power_down ==
  /\ StartWith("power_down", Undefined, Undefined, <<>>,
               ObsWrite(ObsWrite(NewObs, PD_SCK, 0, 1), PD_SCK, 1, 1),
               Undefined)
  /\ level' = [level EXCEPT ![PD_SCK] = 1]
  /\ UNCHANGED <<modstate, now, sel, hist>>

-----------------------------------------------------------------------------
(* read_average, get_value, get_units, tare, calibrate                     *)

MaxTimes == 2

Times == 0 .. MaxTimes

ScaleValues == {Num(0), Num(-2)}

OffsetValues == {Num(4)}

Weights == {Num(2), Num(-6)}

CalibrateSamples == 10

ReadAverageFrame(times) ==
  [fn |-> "read_average", pc |-> "loop", times |-> times, sum |-> 0, i |-> 0]

GetValueFrame(times) == [fn |-> "get_value", pc |-> "ret", times |-> times]

(* What a tare or a calibrate saw: whether it is still the last word on    *)
(* OFFSET (tare) or on OFFSET, SCALE and CAL_RATIO (calibrate), its        *)
(* argument, and the raw value if all its reads returned the same one.     *)
NoSeen ==
  [ok |-> FALSE, arg |-> Undefined, sum |-> 0, done |-> 0, const |-> FALSE,
   raw |-> 0]

Seen(arg, o) ==
  [ok |-> TRUE, arg |-> arg, sum |-> o.sum, done |-> o.done,
   const |-> o.done > 0 /\ o.lo = o.hi,
   raw |-> IF o.done > 0 /\ o.lo = o.hi THEN o.lo ELSE 0]

NoHist ==
  [scale |-> Num(1), offset |-> Num(0), tare |-> NoSeen, cal |-> NoSeen]

(* The average by integer division.                                        *)
AverageTruncated(sum, times) ==
  IF times = 0 THEN NaN ELSE Num(sum \div times)

(* HX711.ts:173: sum / times.                                              *)
Average(sum, times) == NumDiv(Num(sum), Num(times))

read_average(times) ==
  /\ Start("read_average", Integer(times), Undefined,
           <<ReadAverageFrame(times)>>)
  /\ UNCHANGED <<modstate, level, now, sel, hist>>

(* HX711.ts:169-173: the loop test (after the i++ that follows the pause), *)
(* then either the call of read() or the return of sum / times.            *)
read_averageLoop ==
  /\ Running("read_average") /\ Top.pc \in {"loop", "pause"}
  /\ LET i == IF Top.pc = "pause" THEN Top.i + 1 ELSE Top.i
     IN  IF i < Top.times
         THEN /\ stack' = CallFrom([Top EXCEPT !.pc = "add", !.i = i], ReadFrame)
              /\ obs' = ObsRead(obs)
              /\ ret' = ret
         ELSE /\ stack' = Pop
              /\ obs' = obs
              /\ ret' = Number(Average(Top.sum, Top.times))
  /\ UNCHANGED <<modstate, level, now, shifted, op, sel, hist, used>>

(* HX711.ts:170-171: sum += read(); basic.pause(0).                        *)
read_averageAdd ==
  /\ Running("read_average") /\ Top.pc = "add"
  /\ stack' = Goto([Top EXCEPT !.pc = "pause", !.sum = @ + Val(ret)])
  /\ obs' = [ObsEvent(obs, "pause") EXCEPT !.yields = @ + 1]
  /\ UNCHANGED <<modstate, level, now, ret, shifted, op, sel, hist, used>>

get_value(times) ==
  /\ Start("get_value", Integer(times), Undefined,
           <<GetValueFrame(times), ReadAverageFrame(times)>>)
  /\ UNCHANGED <<modstate, level, now, sel, hist>>

(* HX711.ts:179: read_average(times) - OFFSET.                             *)
Offsetted(average, offset) == NumSub(average, offset)

(* HX711.ts:179 *)
get_valueReturn ==
  /\ Running("get_value") /\ Top.pc = "ret"
  /\ ret' = Number(Offsetted(Val(ret), OFFSET))
  /\ stack' = Pop
  /\ UNCHANGED <<modstate, level, now, shifted, op, obs, sel, hist, used>>

calibrate(weight) ==
  /\ Start("calibrate", Number(weight), Undefined,
           <<[fn |-> "calibrate", pc |-> "ret", weight |-> weight],
             GetValueFrame(CalibrateSamples),
             ReadAverageFrame(CalibrateSamples)>>)
  /\ UNCHANGED <<modstate, level, now, sel, hist>>

(* HX711.ts:185: weight / (get_value(10) / SCALE).                         *)
Ratio(weight, value, scale) == NumDiv(weight, NumDiv(value, scale))

(* calibrate that also puts SCALE back to 1.                                *)
calibrateReturnRescale ==
  /\ Running("calibrate") /\ Top.pc = "ret"
  /\ CAL_RATIO' = Ratio(Top.weight, Val(ret), SCALE)
  /\ SCALE' = Num(1)
  /\ hist' = [hist EXCEPT !.cal = Seen(Number(Top.weight), obs)]
  /\ stack' = Pop
  /\ ret' = Undefined
  /\ UNCHANGED <<PD_SCK, DOUT, GAIN, OFFSET, level, now, shifted, op,
                 obs, sel, used>>

(* HX711.ts:185 *)
calibrateReturn ==
  /\ Running("calibrate") /\ Top.pc = "ret"
  /\ CAL_RATIO' = Ratio(Top.weight, Val(ret), SCALE)
  /\ hist' = [hist EXCEPT !.cal = Seen(Number(Top.weight), obs)]
  /\ stack' = Pop
  /\ ret' = Undefined
  /\ UNCHANGED <<PD_SCK, DOUT, GAIN, OFFSET, SCALE, level, now, shifted, op,
                 obs, sel, used>>

get_units(times) ==
  /\ Start("get_units", Integer(times), Undefined,
           <<[fn |-> "get_units", pc |-> "ret", times |-> times],
             GetValueFrame(times), ReadAverageFrame(times)>>)
  /\ UNCHANGED <<modstate, level, now, sel, hist>>

(* The units without the division by SCALE.                                *)
UnitsUnscaled(value, ratio, scale) == NumMul(value, ratio)

(* HX711.ts:195: (get_value(times) * CAL_RATIO) / SCALE.                   *)
Units(value, ratio, scale) == NumDiv(NumMul(value, ratio), scale)

(* HX711.ts:195,203 *)
get_unitsReturn ==
  /\ Running("get_units") /\ Top.pc = "ret"
  /\ ret' = Number(Units(Val(ret), CAL_RATIO, SCALE))
  /\ stack' = Pop
  /\ UNCHANGED <<modstate, level, now, shifted, op, obs, sel, hist, used>>

tare(times) ==
  /\ Start("tare", Integer(times), Undefined,
           <<[fn |-> "tare", pc |-> "ret", times |-> times],
             ReadAverageFrame(times)>>)
  /\ UNCHANGED <<modstate, level, now, sel, hist>>

(* tare that takes the average and does not store it.                     *)
tareReturnNoStore ==
  /\ Running("tare") /\ Top.pc = "ret"
  /\ hist' = [hist EXCEPT !.tare = Seen(Integer(Top.times), obs),
                          !.cal = NoSeen]
  /\ stack' = Pop
  /\ ret' = Undefined
  /\ UNCHANGED <<modstate, level, now, shifted, op, obs, sel, used>>

(* HX711.ts:210-211: sum = read_average(times); set_offset(sum).           *)
tareReturn ==
  /\ Running("tare") /\ Top.pc = "ret"
  /\ OFFSET' = Val(ret)
  /\ hist' = [hist EXCEPT !.offset = Val(ret),
                          !.tare = Seen(Integer(Top.times), obs),
                          !.cal = NoSeen]
  /\ stack' = Pop
  /\ ret' = Undefined
  /\ UNCHANGED <<PD_SCK, DOUT, GAIN, SCALE, CAL_RATIO, level, now, shifted, op,
                 obs, sel, used>>

-----------------------------------------------------------------------------
(* set_scale, get_scale, set_offset, get_offset                            *)

(* HX711.ts:216-218 *)
set_scale(scale) ==
  /\ Start("set_scale", Number(scale), Undefined, <<>>)
  /\ SCALE' = scale
  /\ hist' = [hist EXCEPT !.scale = scale, !.cal = NoSeen]
  /\ UNCHANGED <<PD_SCK, DOUT, GAIN, OFFSET, CAL_RATIO, level, now, sel>>

(* get_scale returning the other accessor's variable.                      *)
get_scaleOffset ==
  /\ StartWith("get_scale", Undefined, Undefined, <<>>, NewObs, Number(OFFSET))
  /\ UNCHANGED <<modstate, level, now, sel, hist>>

(* HX711.ts:222-224 *)
get_scale ==
  /\ StartWith("get_scale", Undefined, Undefined, <<>>, NewObs, Number(SCALE))
  /\ UNCHANGED <<modstate, level, now, sel, hist>>

(* HX711.ts:228-230 *)
set_offset(offset) ==
  /\ Start("set_offset", Number(offset), Undefined, <<>>)
  /\ OFFSET' = offset
  /\ hist' = [hist EXCEPT !.offset = offset, !.tare = NoSeen, !.cal = NoSeen]
  /\ UNCHANGED <<PD_SCK, DOUT, GAIN, SCALE, CAL_RATIO, level, now, sel>>

(* HX711.ts:234-236 *)
get_offset ==
  /\ StartWith("get_offset", Undefined, Undefined, <<>>, NewObs,
               Number(OFFSET))
  /\ UNCHANGED <<modstate, level, now, sel, hist>>

-----------------------------------------------------------------------------
(* Specifications                                                          *)

(* HX711.ts:9-14 *)
Init ==
  /\ PD_SCK = "P0"
  /\ DOUT = "P8"
  /\ GAIN = 0
  /\ OFFSET = Num(0)
  /\ SCALE = Num(1)
  /\ CAL_RATIO = Num(1)
  /\ level = [p \in Pins |-> 0]
  /\ now = 0
  /\ stack = <<>>
  /\ ret = Undefined
  /\ shifted = NoSamples
  /\ op = NoOp
  /\ obs = NewObs
  /\ sel = 0
  /\ hist = NoHist
  /\ used = 0
  /\ parked = NoFiber
  /\ overlaps = 0

(* The steps inside read(), shared by every caller of it.                  *)
ReadSteps(W) ==
  \/ readWait
  \/ wait_readyCheck
  \/ wait_readyPause
  \/ readShift
  \/ shiftInSlowRaise
  \/ shiftInSlowSample(W)
  \/ shiftInSlowLower
  \/ shiftInSlowReturn
  \/ readStore
  \/ readGainRaise
  \/ readGainLower
  \/ readReturn

(* The conversion protocol: the calls that clock the converter.            *)
Next ==
  \/ /\ UNCHANGED used
     /\ \/ \E pp \in PinPairs : begin(pp[1], pp[2])
        \/ \E gain \in Selectors : set_gain(gain)
        \/ read
        \/ \E bitOrder \in BitOrders : shiftInSlow(bitOrder)
        \/ is_ready
        \/ wait_ready(0)
        \/ power_up
        \/ power_down
  \/ /\ UNCHANGED fibers
     /\ \/ beginReturn
        \/ set_gainSwitch
        \/ set_gainReturn
        \/ ReadSteps(WideWords)
  \/ fiberSwitch

Spec == Init /\ [][Next]_vars

(* The readiness waits, with a clock that advances in their pauses.        *)
NextWait ==
  \/ /\ UNCHANGED used
     /\ \/ is_ready
        \/ power_down
        \/ \E d \in Delays : wait_ready(d)
        \/ \E k \in -1 .. MaxRetries, d \in Delays : wait_ready_retry(k, d)
        \/ \E t \in -1 .. MaxTimeout, d \in Delays : wait_ready_timeout(t, d)
  \/ /\ UNCHANGED fibers
     /\ \/ wait_readyCheck
        \/ wait_readyPause
        \/ wait_ready_retryLoop
        \/ wait_ready_retryPause
        \/ wait_ready_timeoutLoop
        \/ wait_ready_timeoutPause
  \/ fiberSwitch

SpecWait == Init /\ [][NextWait]_vars

MaxReads == 4

(* The averaging layer over read(): read_average, tare, get_value.         *)
NextCal ==
  \/ \E n \in Times :
       /\ used + n <= MaxReads
       /\ used' = used + n
       /\ \/ read_average(n)
          \/ get_value(n)
          \/ tare(n)
  \/ /\ UNCHANGED used
     /\ \/ \E v \in OffsetValues : set_offset(v)
        \/ get_offset
  \/ /\ UNCHANGED fibers
     /\ \/ read_averageLoop
        \/ read_averageAdd
        \/ get_valueReturn
        \/ tareReturn
        \/ ReadSteps(CalWords)
  \/ fiberSwitch

(* The state in which begin("P8", "P0") leaves the driver.                 *)
InitCal ==
  /\ PD_SCK = "P0"
  /\ DOUT = "P8"
  /\ GAIN = GainPulses(128, 0)
  /\ OFFSET = Num(0)
  /\ SCALE = Num(1)
  /\ CAL_RATIO = Num(1)
  /\ level = [p \in Pins |-> 0]
  /\ now = 0
  /\ stack = <<>>
  /\ ret = Undefined
  /\ shifted = NoSamples
  /\ op = [name |-> "begin", a |-> Pin("P8"), b |-> Pin("P0")]
  /\ obs = NewObs
  /\ sel = 128
  /\ hist = NoHist
  /\ used = 0
  /\ parked = NoFiber
  /\ overlaps = 0

SpecCal == InitCal /\ [][NextCal]_vars

(* The converter holding one reading, as calibrate is used; an offset     *)
(* equal to it and one that is not.                                        *)
RatioWords == {4}

RatioOffsets == {Num(4), Num(1)}

(* calibrate, get_units and the four accessors.                            *)
NextRatio ==
  \/ \E n \in Times :
       /\ used + n <= CalibrateSamples + MaxTimes
       /\ used' = used + n
       /\ get_units(n)
  \/ \E w \in Weights :
       /\ used + CalibrateSamples <= CalibrateSamples + MaxTimes
       /\ used' = used + CalibrateSamples
       /\ calibrate(w)
  \/ /\ UNCHANGED used
     /\ \/ \E v \in ScaleValues : set_scale(v)
        \/ \E v \in RatioOffsets : set_offset(v)
        \/ get_scale
        \/ get_offset
  \/ /\ UNCHANGED fibers
     /\ \/ read_averageLoop
        \/ read_averageAdd
        \/ get_valueReturn
        \/ get_unitsReturn
        \/ calibrateReturn
        \/ ReadSteps(RatioWords)
  \/ fiberSwitch

SpecRatio == InitCal /\ [][NextRatio]_vars

(* HX711.ts:95-113: read() does not mask interrupts ("skipping the critical*)
(* section & interupt"), so a handler may run between any two of its       *)
(* statements, also while the clock is high (l.81-86); the handler leaves  *)
(* the driver's variables alone.                                           *)
interrupt ==
  /\ obs' = [obs EXCEPT !.preempted = @ \/ InSequence(obs),
                        !.stretched = @ \/ (InSequence(obs) /\ obs.high)]
  /\ UNCHANGED <<modstate, level, now, stack, ret, shifted, op, sel, hist,
                 used, fibers>>

(* The inputs of the whole driver taken together: one conversion result,   *)
(* waits that poll without delay, a bounded number of public calls.        *)
AllWords == {11184810}

AllSelectors == {64, 16}

AllTimes == {0, 1}

AllWeights == {Num(2)}

MaxCalls == 3

(* The public calls of the behaviours checked for termination.             *)
MaxCallsLive == 2

(* The steps a public call takes after its entry.                          *)
StepsAll ==
  \/ beginReturn
  \/ set_gainSwitch
  \/ set_gainReturn
  \/ ReadSteps(AllWords)
  \/ wait_ready_retryLoop
  \/ wait_ready_retryPause
  \/ wait_ready_timeoutLoop
  \/ wait_ready_timeoutPause
  \/ read_averageLoop
  \/ read_averageAdd
  \/ get_valueReturn
  \/ get_unitsReturn
  \/ calibrateReturn
  \/ tareReturn

(* Every exported function.                                                *)
NextAll ==
  \/ /\ used < MaxCalls
     /\ used' = used + 1
     /\ \/ begin("P1", "P2")
        \/ \E gain \in AllSelectors : set_gain(gain)
        \/ read
        \/ \E bitOrder \in BitOrders : shiftInSlow(bitOrder)
        \/ is_ready
        \/ power_up
        \/ power_down
        \/ wait_ready(0)
        \/ \E k \in {0, 1} : wait_ready_retry(k, 0)
        \/ \E t \in {0, 1} : wait_ready_timeout(t, 0)
        \/ \E n \in AllTimes :
             read_average(n) \/ get_value(n) \/ get_units(n) \/ tare(n)
        \/ \E w \in AllWeights : calibrate(w)
        \/ set_scale(Num(2))
        \/ set_offset(Num(4))
        \/ get_scale
        \/ get_offset
  \/ StepsAll /\ UNCHANGED fibers
  \/ fiberSwitch

SpecAll == Init /\ [][NextAll]_vars

(* read() and the call that selects the gain, with interrupts.             *)
NextIrq ==
  \/ /\ UNCHANGED used
     /\ \/ set_gain(64)
        \/ read
  \/ /\ UNCHANGED fibers
     /\ \/ set_gainSwitch
        \/ set_gainReturn
        \/ ReadSteps(AllWords)
  \/ fiberSwitch
  \/ interrupt

SpecIrq == Init /\ [][NextIrq]_vars

(* The steps of the calls that read.                                       *)
StepsLive ==
  \/ ReadSteps(AllWords)
  \/ read_averageLoop
  \/ read_averageAdd
  \/ get_valueReturn
  \/ get_unitsReturn
  \/ calibrateReturn
  \/ tareReturn

NextLive ==
  \/ /\ used < MaxCallsLive
     /\ used' = used + 1
     /\ \/ read
        \/ \E n \in AllTimes :
             read_average(n) \/ get_value(n) \/ get_units(n) \/ tare(n)
        \/ \E w \in AllWeights : calibrate(w)
  \/ StepsLive /\ UNCHANGED fibers
  \/ fiberSwitch

(* The running fiber goes on after every busy wait, and the scheduler      *)
(* resumes a fiber whose pause is over: a call that can take a step        *)
(* eventually takes it, and a suspended call is eventually resumed.        *)
SpecLive ==
  /\ InitCal /\ [][NextLive]_vars
  /\ WF_vars(StepsLive /\ UNCHANGED fibers)
  /\ WF_vars(fiberSwitch)

-----------------------------------------------------------------------------
(* Properties                                                              *)

(* A public call of the given name has returned.                           *)
Returned(name) == Idle /\ op.name = name

(* No other fiber ran in the driver while the call of the running fiber    *)
(* was suspended in a pause: the call ran as the only caller.              *)
Alone == ~obs.shared

(* The trailing pulse count the data sheet assigns to a selector.          *)
Trailing(selector) ==
  CASE selector = 128 -> 1
    [] selector = 64  -> 3
    [] selector = 32  -> 2

(* C1: after set_gain with a valid selector (128, 64, 32), a read() issues *)
(* exactly 1, 3, 2 trailing clock pulses, after its 24 data pulses; so     *)
(* does the read() that set_gain itself performs, no other fiber having    *)
(* selected another gain while that read waited.                           *)
C1_TrailingPulses ==
  /\ (Returned("read") /\ sel # 0) =>
        obs.dpulses = WordBits /\ obs.gpulses = Trailing(sel)
  /\ (Returned("set_gain") /\ Val(op.a) \in {128, 64, 32} /\ Alone) =>
        obs.dpulses = WordBits /\ obs.gpulses = Trailing(Val(op.a))
  /\ obs.gpulses > 0 => obs.dpulses = WordBits

C1_Witness ==
  /\ Returned("read") /\ sel = 64 /\ obs.gpulses = 3 /\ obs.dpulses = 24

(* The two's-complement reading of a 24-bit pattern.                       *)
TwosComplement(w) == IF w >= Pow2(WordBits - 1) THEN w - Pow2(WordBits) ELSE w

(* C2: read() returns the two's-complement value of the 24 bits it         *)
(* sampled, first sample most significant: negative exactly when the first *)
(* sample was 1, and within -2^23 .. 2^23 - 1.                             *)
C2_SignExtension ==
  Returned("read") =>
    /\ shifted.n = WordBits
    /\ Val(ret) = TwosComplement(shifted.bits)
    /\ (Val(ret) < 0) = (shifted.bits \div Pow2(WordBits - 1) = 1)
    /\ Val(ret) >= -8388608 /\ Val(ret) <= 8388607
    /\ (shifted.bits = 8388607 => Val(ret) = 8388607)
    /\ (shifted.bits = 8388608 => Val(ret) = -8388608)
    /\ (shifted.bits = 1 => Val(ret) = 1)

C2_Witness == Returned("read") /\ shifted.bits = 8388608 /\ Val(ret) = -8388608

(* C3: read_average(n), n >= 1, calls read() exactly n times and returns   *)
(* the sum of the n values read() returned divided by n; it yields with    *)
(* basic.pause(0) once after each sample, before the next read() starts,   *)
(* and the pause takes no time.                                            *)
C3_ReadAverage ==
  (op.name = "read_average" /\ Val(op.a) >= 1) =>
    /\ obs.reads <= Val(op.a)
    /\ obs.yields <= obs.done /\ obs.done <= obs.yields + 1
    /\ (obs.reads > obs.done => obs.yields = obs.done)
    /\ Idle => /\ obs.reads = Val(op.a) /\ obs.done = Val(op.a)
               /\ obs.yields = Val(op.a)
               /\ Val(ret) = Frac(obs.sum, Val(op.a))
               /\ now = obs.t0

C3_Witness ==
  /\ Returned("read_average") /\ Val(op.a) = 2
  /\ obs.lo = -3 /\ obs.hi = 4 /\ Val(ret) = Frac(1, 2)

(* C4: tare(n) sets OFFSET to the average of the n values its reads        *)
(* returned; a later get_value(m), with no set_offset in between, returns  *)
(* the average of its own m reads minus that offset, which is 0 when every *)
(* read of both calls returned the same raw value.                         *)
C4_Tare ==
  /\ Returned("tare") =>
        obs.done = Val(op.a) /\ OFFSET = Frac(obs.sum, Val(op.a))
  /\ (Returned("get_value") /\ hist.tare.ok) =>
        /\ obs.done = Val(op.a)
        /\ Val(ret) = NumSub(Frac(obs.sum, Val(op.a)),
                        Frac(hist.tare.sum, Val(hist.tare.arg)))
        /\ (hist.tare.const /\ obs.done > 0 /\ obs.lo = obs.hi
              /\ obs.lo = hist.tare.raw) => Val(ret) = Num(0)

C4_Witness ==
  /\ Returned("get_value") /\ Val(op.a) = 2
  /\ hist.tare.ok /\ Val(hist.tare.arg) = 2
  /\ hist.tare.const /\ hist.tare.raw = -3
  /\ obs.lo = -3 /\ obs.hi = -3 /\ Val(ret) = Num(0)

(* C5: calibrate(w) sets CAL_RATIO to w / (get_value(10) / SCALE); if it   *)
(* is followed by get_units(n), n >= 1, with OFFSET and SCALE not set in   *)
(* between, SCALE non-zero, and every read of both calls returning the     *)
(* same raw value, different from the (finite) OFFSET, get_units returns w.*)
(* (With the raw value equal to OFFSET the ratio is infinite: w divided by *)
(* a zero that has the sign of SCALE.)                                     *)
C5_CalibrateThenUnits ==
  /\ Returned("calibrate") =>
        /\ obs.done = CalibrateSamples
        /\ CAL_RATIO =
             NumDiv(Val(op.a),
                    NumDiv(NumSub(Frac(obs.sum, CalibrateSamples), OFFSET),
                           SCALE))
        /\ (obs.lo = obs.hi /\ OFFSET = Num(obs.lo) /\ ~IsZero(SCALE)) =>
             CAL_RATIO = Infinity(IsNegative(Val(op.a)) # IsNegative(SCALE))
  /\ (Returned("get_units") /\ Val(op.a) >= 1 /\ hist.cal.ok /\ hist.cal.const
        /\ obs.lo = obs.hi /\ obs.lo = hist.cal.raw
        /\ IsFinite(OFFSET) /\ OFFSET # Num(hist.cal.raw)
        /\ ~IsZero(SCALE)) =>
        /\ obs.done = Val(op.a)
        /\ Val(ret) = Val(hist.cal.arg)

C5_Witness ==
  /\ Returned("get_units") /\ Val(op.a) = 2 /\ hist.cal.ok /\ hist.cal.const
  /\ hist.cal.raw = 4 /\ obs.lo = 4 /\ obs.hi = 4
  /\ OFFSET = Num(1) /\ SCALE = Num(-2) /\ CAL_RATIO = Num(4)
  /\ Val(hist.cal.arg) = Num(-6) /\ Val(ret) = Num(-6)

(* C6: wait_ready_retry(k, delay) makes at most k readiness checks (none   *)
(* for k < 0); it returns true at the first check that sees the line low,  *)
(* making no check after it, and false only after exactly k checks that    *)
(* all saw it high.                                                        *)
C6_RetryChecks ==
  op.name = "wait_ready_retry" =>
    /\ obs.checks <= Max2(Val(op.a), 0)
    /\ (~Idle => obs.ready = 0)
    /\ Idle => /\ ret \in {Bool(TRUE), Bool(FALSE)}
               /\ ret = Bool(TRUE) => obs.ready = 1
               /\ ret = Bool(FALSE) =>
                    obs.ready = 0 /\ obs.checks = Max2(Val(op.a), 0)

C6_Witness ==
  /\ Returned("wait_ready_retry") /\ Val(op.a) = 2 /\ ret = Bool(FALSE)
  /\ obs.checks = 2 /\ obs.pauses = 2

(* Milliseconds on input.runningTime() since the public call was entered.  *)
Elapsed == now - obs.t0

(* C7 as stated: wait_ready_timeout(timeout, delay) that never saw the     *)
(* line low returns false with timeout <= elapsed < timeout + delay (time  *)
(* advancing only in its own pauses), and returns true only on a check     *)
(* made while elapsed < timeout.                                           *)
C7_AsStated ==
  Returned("wait_ready_timeout") =>
    /\ (obs.ready = 0) = (ret = Bool(FALSE))
    /\ ret = Bool(FALSE) =>
         /\ Elapsed >= Val(op.a)
         /\ Alone => Elapsed < Val(op.a) + Val(op.b)
    /\ ret = Bool(TRUE) => obs.ready = 1 /\ Elapsed < Val(op.a)

(* C7, amended: the upper bound timeout + delay holds for timeout > 0,     *)
(* time advancing only in the call's own pauses (no other fiber pausing in *)
(* the driver meanwhile); with timeout <= 0 the call returns false at      *)
(* once, no check made and no time elapsed.                                *)
C7_TimeoutElapsed ==
  Returned("wait_ready_timeout") =>
    /\ (obs.ready = 0) = (ret = Bool(FALSE))
    /\ ret = Bool(FALSE) =>
         /\ Elapsed >= Val(op.a)
         /\ (Val(op.a) > 0 /\ Alone) => Elapsed < Val(op.a) + Val(op.b)
         /\ Val(op.a) <= 0 => Elapsed = 0 /\ obs.checks = 0
    /\ ret = Bool(TRUE) => obs.ready = 1 /\ Elapsed < Val(op.a)

C7_Witness ==
  /\ Returned("wait_ready_timeout") /\ Val(op.a) = 3 /\ Val(op.b) = 2
  /\ ret = Bool(FALSE) /\ Elapsed = 4 /\ obs.checks = 2 /\ Alone

(* C8: a read() pulses the clock only after one of its readiness checks    *)
(* saw the data line low, and returns only then; wait_ready returns only   *)
(* after seeing the line low and writes no pin.  Neither has a timeout:    *)
(* while the line is seen high they keep polling.                          *)
C8_NoPulseBeforeReady ==
  /\ ~obs.early
  /\ (op.name = "read" /\ ~obs.armed) => obs.writes = 0
  /\ (Running("wait_ready") /\ ~PublicWait) =>
        obs.dpulses = 0 /\ obs.gpulses = 0 /\ ~obs.armed
  /\ Returned("read") => obs.armed /\ obs.done = 1
  /\ op.name = "wait_ready" => obs.writes = 0
  /\ Returned("wait_ready") => obs.ready = 1

C8_Witness ==
  /\ op.name = "read" /\ Running("wait_ready") /\ Top.pc = "pause"
  /\ obs.busy = 1 /\ obs.writes = 0

Accessors == {"set_scale", "get_scale", "set_offset", "get_offset"}

(* C9: get_scale() returns the value last given to set_scale, get_offset() *)
(* the value last given to set_offset, however often they are called; the  *)
(* four accessors read no pin, write no pin and change no other variable.  *)
C9_Accessors ==
  /\ [](/\ Returned("get_scale") => Val(ret) = hist.scale
        /\ Returned("get_offset") => Val(ret) = hist.offset
        /\ Returned("set_scale") => SCALE = Val(op.a)
        /\ Returned("set_offset") => OFFSET = Val(op.a)
        /\ (Idle /\ op.name \in Accessors) =>
              /\ obs.writes = 0 /\ obs.wrote = {} /\ obs.sampled = {}
              /\ obs.checks = 0 /\ obs.reads = 0)
  /\ [][/\ op'.name = "set_scale" =>
              UNCHANGED <<PD_SCK, DOUT, GAIN, OFFSET, CAL_RATIO, level, now>>
        /\ op'.name = "set_offset" =>
              UNCHANGED <<PD_SCK, DOUT, GAIN, SCALE, CAL_RATIO, level, now>>
        /\ op'.name \in {"get_scale", "get_offset"} =>
              UNCHANGED <<modstate, level, now>>]_vars

C9_Witness ==
  /\ Returned("get_scale") /\ Val(ret) = Num(-2) /\ OFFSET = Num(4)
  /\ CAL_RATIO = Infinity(TRUE) /\ Suspended

(* C10: begin(dataPin, clockPin) binds the two pins, drives the clock pin  *)
(* low, sets the pulse count 1 of selector 128 and performs one full       *)
(* read() on the new pins, 24 data pulses and 1 trailing pulse after the   *)
(* line was seen low (begin being the only caller meanwhile); OFFSET,      *)
(* SCALE and CAL_RATIO stay as they were.                                  *)
C10_Begin ==
  /\ []((Returned("begin") /\ Alone) =>
          /\ DOUT = Val(op.a) /\ PD_SCK = Val(op.b)
          /\ GAIN = 1 /\ sel = 128
          /\ obs.reads = 1 /\ obs.done = 1
          /\ obs.armed /\ ~obs.early
          /\ obs.dpulses = WordBits /\ obs.gpulses = 1
          /\ obs.low1st /\ obs.writes = 1 + 2 * (WordBits + 1)
          /\ obs.wrote = {Val(op.b)} /\ obs.sampled = {Val(op.a)}
          /\ level[Val(op.b)] = 0)
  /\ [][op'.name = "begin" => UNCHANGED <<OFFSET, SCALE, CAL_RATIO>>]_vars

C10_Witness ==
  /\ Returned("begin") /\ Alone /\ Val(op.a) = "P1" /\ Val(op.b) = "P2"
  /\ OFFSET = Num(4) /\ SCALE = Num(2) /\ obs.gpulses = 1

ValidSelectors == {128, 64, 32}

(* C11 as stated: at every moment, the time before the first begin or      *)
(* set_gain included, the trailing pulse count a read() applies after its  *)
(* 24 data pulses is 1, 3 or 2.                                            *)
C11_AsStated == Returned("read") => obs.gpulses \in {1, 2, 3}

(* C11, what the driver does: the pulse count is 0 until the first         *)
(* set_gain with a selector (begin included), then the count of the last   *)
(* selector given; only the switch of set_gain changes it.                 *)
C11_SelectorPersists ==
  /\ [](/\ GAIN \in {0, 1, 2, 3}
        /\ (sel = 0) = (GAIN = 0)
        /\ sel # 0 => GAIN = Trailing(sel)
        /\ Returned("read") => obs.gpulses = GAIN)
  /\ [][GAIN' # GAIN =>
          /\ Running("set_gain") /\ Top.pc = "switch"
          /\ Top.gain \in ValidSelectors
          /\ GAIN' = Trailing(Top.gain)]_vars

C11_Witness ==
  /\ Returned("read") /\ GAIN = 0 /\ obs.dpulses = WordBits
  /\ obs.gpulses = 0

(* C12: set_gain with a value other than 128, 64, 32 leaves the pulse      *)
(* count as it was, returns normally, writes the clock low first and       *)
(* performs one full read() with the unchanged pulse count (no other fiber *)
(* having selected a gain while that read waited).                         *)
C12_InvalidSelector ==
  /\ [](Returned("set_gain") /\ Val(op.a) \notin ValidSelectors /\ Alone =>
          /\ ret = Undefined
          /\ obs.low1st /\ obs.wrote = {PD_SCK} /\ level[PD_SCK] = 0
          /\ obs.reads = 1 /\ obs.done = 1
          /\ obs.dpulses = WordBits /\ obs.gpulses = GAIN
          /\ obs.writes = 1 + 2 * (WordBits + GAIN))
  /\ [][(op'.name = "set_gain" /\ Val(op'.a) \notin ValidSelectors) =>
          UNCHANGED <<GAIN, sel>>]_vars

C12_Witness ==
  /\ Returned("set_gain") /\ Val(op.a) = 16 /\ GAIN = 3 /\ obs.gpulses = 3
  /\ obs.low1st

(* C13: power_down writes the clock low, then high, and nothing else;      *)
(* power_up writes the clock low and nothing else; neither reads a pin nor *)
(* changes the pulse count, the pins or the calibration variables.         *)
C13_Power ==
  /\ [](/\ Returned("power_down") =>
             /\ obs.writes = 2 /\ obs.low1st /\ level[PD_SCK] = 1
             /\ obs.wrote = {PD_SCK} /\ obs.sampled = {}
        /\ Returned("power_up") =>
             /\ obs.writes = 1 /\ obs.low1st /\ level[PD_SCK] = 0
             /\ obs.wrote = {PD_SCK} /\ obs.sampled = {})
  /\ [][op'.name \in {"power_up", "power_down"} =>
          /\ UNCHANGED <<modstate, sel, now>>
          /\ \A p \in Pins \ {PD_SCK} : level'[p] = level[p]]_vars

C13_Witness ==
  /\ Returned("power_down") /\ PD_SCK = "P2" /\ level["P2"] = 1
  /\ GAIN = 3 /\ Suspended /\ parked.op.name = "read"

(* The 24-bit word with data[2] as its most significant byte.              *)
Word(data) == data[3] * Pow2(2 * ByteBits) + data[2] * Pow2(ByteBits) + data[1]

(* The eight bits of byte in the opposite order.                           *)
Reversed(byte) ==
  LET bit(k) == (byte \div Pow2(k)) % 2
  IN  bit(0) * 128 + bit(1) * 64 + bit(2) * 32 + bit(3) * 16
        + bit(4) * 8 + bit(5) * 4 + bit(6) * 2 + bit(7)

(* The samples a call of shiftInSlow has taken so far, earliest first, as  *)
(* the leading bits of a byte.                                             *)
Leading(frame) ==
  LET k == IF frame.pc = "lower" THEN frame.i + 1 ELSE frame.i
  IN  (shifted.bits % Pow2(k)) * Pow2(ByteBits - k)

(* C15: in a read() every data sample is taken while the clock is high,    *)
(* one per data pulse (raise, sample, lower), and the i-th sample          *)
(* (i = 0 .. 23) is bit 23 - i of the word: the first byte shifted in is   *)
(* the most significant byte, the first bit of a byte its top bit.  (A     *)
(* public shiftInSlow(0) puts its first sample in the lowest bit.)         *)
C15_BitOrder ==
  /\ obs.clocked
  /\ obs.taken = shifted.n
  /\ Running("shiftInSlow") =>
        /\ obs.dpulses = obs.taken + (IF Top.pc = "sample" THEN 1 ELSE 0)
        /\ Top.pc \in {"sample", "lower"} => level[PD_SCK] = 1 /\ obs.high
        /\ Len(stack) > 1 =>
             /\ stack[Len(stack) - 1].fn = "read" /\ Top.bitOrder = 1
             /\ Top.value = Leading(Top)
  /\ (Running("read")
        /\ Top.pc \in {"data1", "data0", "gain", "gainlow"}) =>
        Word(Top.data) = shifted.bits * Pow2(WordBits - shifted.n)
  /\ Returned("read") =>
        /\ shifted.n = WordBits /\ obs.taken = WordBits
        /\ (Val(ret) + Pow2(WordBits)) % Pow2(WordBits) = shifted.bits
  /\ Returned("shiftInSlow") =>
        /\ shifted.n = ByteBits
        /\ Val(ret) = IF Val(op.a) = 0 THEN Reversed(shifted.bits)
                      ELSE shifted.bits

C15_Witness ==
  /\ Running("shiftInSlow") /\ Top.pc = "lower" /\ Top.i = 1
  /\ Len(stack) > 1
  /\ stack[Len(stack) - 1].fn = "read" /\ stack[Len(stack) - 1].pc = "store1"
  /\ stack[Len(stack) - 1].data = <<0, 0, 127>>
  /\ shifted = [n |-> 10, bits |-> 511] /\ Top.value = 192
  /\ obs.taken = 10 /\ obs.highs = 10 /\ obs.lows = 9

(* C19: wait_ready_retry with retries <= 0 and wait_ready_timeout with     *)
(* timeout <= 0 return false without a readiness check, so whatever the    *)
(* level of the data line; and when a wait returns false every not-ready   *)
(* check was followed by a pause, the last one included.                   *)
C19_NoCheckWhenExhausted ==
  (op.name \in {"wait_ready_retry", "wait_ready_timeout"}) =>
    /\ Val(op.a) <= 0 =>
         /\ obs.checks = 0 /\ obs.sampled = {} /\ obs.pauses = 0
         /\ Idle => ret = Bool(FALSE)
    /\ (~Idle /\ Top.pc = "pause") => obs.pauses = obs.checks - 1
    /\ (~Idle /\ Top.pc = "loop") => obs.pauses = obs.checks
    /\ (Idle /\ ret = Bool(FALSE)) => obs.pauses = obs.checks
    /\ (Idle /\ ret = Bool(TRUE)) => obs.pauses = obs.checks - 1

C19_Witness ==
  /\ Returned("wait_ready_timeout") /\ Val(op.a) = 0 /\ Val(op.b) = 2
  /\ ret = Bool(FALSE) /\ obs.checks = 0 /\ obs.sampled = {}

(* C14 as stated: no interrupt handler runs between the first clock raise  *)
(* and the last clock lower of a read().                                   *)
C14_AsStated == ~obs.preempted

(* The calls that perform at least one read(), and those that perform as   *)
(* many as their argument says.                                            *)
ReadingCalls ==
  {"read", "read_average", "get_value", "get_units", "tare", "calibrate",
   "set_gain", "begin"}

CountedCalls == {"read_average", "get_value", "get_units", "tare"}

(* Every completed read() made 24 + GAIN clock writes of 1, each followed  *)
(* by a write of 0 (GAIN as the call found it: no other fiber ran).        *)
PulsesPaired ==
  /\ obs.alt
  /\ (obs.reads > 0 /\ obs.done = obs.reads /\ Alone) =>
        /\ obs.highs = WordBits + GAIN /\ obs.lows = obs.highs
        /\ ~obs.high

(* C16 as stated: every completed read() makes 24 + GAIN paired clock      *)
(* pulses, and the clock is low whenever read, read_average, get_value,    *)
(* get_units, tare, calibrate, set_gain, begin or power_up returns.        *)
C16_AsStated ==
  /\ PulsesPaired
  /\ (Idle /\ op.name \in ReadingCalls \cup {"power_up"} /\ Alone) =>
        level[PD_SCK] = 0

(* C16, amended: read_average, get_value, get_units and tare return with   *)
(* the clock low when called with times >= 1; with times <= 0 they perform *)
(* no read and leave every pin as it was.  Of the calls that write the     *)
(* clock, only power_down returns with it high.                            *)
C16_ClockLow ==
  /\ [](/\ PulsesPaired
        /\ (Idle /\ op.name \in (ReadingCalls \ CountedCalls) \cup {"power_up"}
              /\ Alone) => level[PD_SCK] = 0
        /\ (Idle /\ op.name \in CountedCalls /\ Val(op.a) >= 1 /\ Alone)
              => level[PD_SCK] = 0
        /\ (op.name \in CountedCalls /\ Val(op.a) <= 0) => obs.writes = 0
        /\ (Idle /\ Alone /\ obs.writes > 0 /\ level[PD_SCK] = 1) =>
              op.name = "power_down")
  /\ [][(op'.name \in CountedCalls /\ Val(op'.a) <= 0) => UNCHANGED level]_vars

C16_Witness ==
  /\ Returned("get_units") /\ Val(op.a) = 1 /\ GAIN = 1 /\ Alone
  /\ PD_SCK = "P2" /\ level["P2"] = 0 /\ level["P0"] = 1
  /\ obs.highs = 25 /\ obs.lows = 25

(* C17: no basic.pause runs between the first clock raise and the last     *)
(* clock lower of a read(): the driver pauses only in a readiness wait     *)
(* (that of a read() comes before its first pulse) and in read_average     *)
(* after a read() has returned.  So a call that another fiber enters finds *)
(* the suspended call outside its pulse sequence, at most one sequence is  *)
(* in progress, and while it is the running fiber stays the same.          *)
C17_NoYieldInSequence ==
  /\ [](/\ ~obs.yielded
        /\ Cardinality({k \in DOMAIN stack : stack[k].fn = "read"}) <= 1
        /\ (~Idle /\ Top.pc = "pause") =>
              /\ ~InSequence(obs)
              /\ \/ Top.fn = "read_average" /\ obs.reads = obs.done
                 \/ Top.fn = "wait_ready" /\ ~PublicWait /\ obs.highs = 0
                 \/ /\ Top.fn \in {"wait_ready", "wait_ready_retry",
                                   "wait_ready_timeout"}
                    /\ PublicWait /\ obs.reads = 0
        /\ Suspended =>
              /\ parked.stack[Len(parked.stack)].pc = "pause"
              /\ ~parked.obs.yielded
              /\ parked.obs.reads > parked.obs.done => parked.obs.highs = 0)
  /\ [][InSequence(obs) => parked' = parked /\ op' = op]_vars

C17_Witness ==
  /\ Running("shiftInSlow") /\ Len(stack) = 3 /\ InSequence(obs)
  /\ op.name = "set_gain" /\ Suspended /\ parked.op.name = "calibrate"
  /\ parked.obs.done = 3 /\ parked.obs.yields = 3 /\ obs.highs = 5

ReadOnlyCalls ==
  {"is_ready", "wait_ready", "wait_ready_retry", "wait_ready_timeout",
   "read", "read_average", "get_value", "get_units"}

(* C18: is_ready, the three waits, read, read_average, get_value and       *)
(* get_units change none of PD_SCK, DOUT, GAIN, OFFSET, SCALE, CAL_RATIO,  *)
(* and is_ready writes no pin; of these six variables tare changes only    *)
(* OFFSET, calibrate only CAL_RATIO, set_gain only GAIN; the pin bindings  *)
(* change only at the entry of begin.                                      *)
C18_Frames ==
  /\ [](Returned("is_ready") => obs.writes = 0 /\ obs.wrote = {})
  /\ [][/\ op'.name \in ReadOnlyCalls => UNCHANGED modstate
        /\ op'.name = "is_ready" => UNCHANGED level
        /\ op'.name = "tare" =>
             UNCHANGED <<PD_SCK, DOUT, GAIN, SCALE, CAL_RATIO>>
        /\ op'.name = "calibrate" =>
             UNCHANGED <<PD_SCK, DOUT, GAIN, OFFSET, SCALE>>
        /\ op'.name = "set_gain" =>
             UNCHANGED <<PD_SCK, DOUT, OFFSET, SCALE, CAL_RATIO>>
        /\ <<PD_SCK, DOUT>>' # <<PD_SCK, DOUT>> =>
             op'.name = "begin" /\ obs'.reads = 0]_vars

C18_Witness ==
  /\ Returned("calibrate") /\ CAL_RATIO # Num(1)
  /\ SCALE = Num(2) /\ OFFSET = Num(4)

(* C20: the data line being seen low after finitely many readiness checks, *)
(* every call that reads returns, the call of a suspended fiber included:  *)
(* read() after one read, read_average, get_value, get_units and tare      *)
(* after as many reads as their argument says, calibrate after ten; and a  *)
(* pulse sequence once begun is completed.                                 *)
C20_Termination ==
  /\ [](/\ (Idle /\ op.name \in CountedCalls) =>
             obs.reads = Val(op.a) /\ obs.done = Val(op.a)
        /\ Returned("calibrate") =>
             obs.reads = CalibrateSamples /\ obs.done = CalibrateSamples
        /\ Returned("read") => obs.reads = 1 /\ obs.done = 1)
  /\ (~Idle /\ op.name \in ReadingCalls) ~> Idle
  /\ Suspended ~> (Idle /\ ~Suspended)
  /\ InSequence(obs) ~> ~InSequence(obs)

C20_Witness ==
  /\ Returned("calibrate") /\ obs.done = CalibrateSamples
  /\ obs.yields = CalibrateSamples /\ GAIN = 1
  /\ obs.shared /\ ~Suspended /\ used = MaxCallsLive

====
